---- MODULE Spec2Model ----
(***************************************************************************)
(* Model of acvm-simulator's execution driver (src/src/execute.rs), its    *)
(* three blackbox adapters (SimulatedBackend) and the memory bridge to the *)
(* Barretenberg WASM module (src/src/barretenberg/mod.rs).                 *)
(*                                                                         *)
(* Three state machines share the module:                                  *)
(*   Spec / FairSpec : execute_circuit + process_brillig_calls + handler   *)
(*   AdapterSpec     : schnorr_verify, pedersen, fixed_base_scalar_mul     *)
(*   BridgeSpec      : transfer_to_heap, read_memory*, allocate            *)
(***************************************************************************)
EXTENDS Integers, Sequences, FiniteSets, TLC

\* ------------------------------------------------------------------------
\* Bounds of the model
\* ------------------------------------------------------------------------
\* witness indices are 1..NumWitness
NumWitness == 3
\* field elements are 0..MaxField
MaxField == 2
\* a circuit has at most MaxOpcodes opcodes
MaxOpcodes == 3
\* a circuit has at most NumBlocks Brillig blocks
NumBlocks == 2
\* a Brillig block makes at most MaxCalls foreign calls before it finishes
MaxCalls == 2
\* signatures of up to MaxSigLen elements are tried
MaxSigLen == 65
\* output slot lists of up to MaxOutputs witnesses are tried
MaxOutputs == 3
\* size of the linear memory in bytes (22 pages in the program)
MemSize == 4
\* byte strings of up to MaxData bytes are moved across the bridge
MaxData == 2
\* width of a module word in bits (32 in the program)
WordBits == 4

\* ------------------------------------------------------------------------
\* Program constants
\* ------------------------------------------------------------------------
\* bytes of one field element
FIELD_BYTES == 32
\* bytes of the public key and of the signature
SIG_BYTES == 64
\* bytes of each half of the signature
SIG_HALF == 32

Witness == 1..NumWitness
FieldElement == 0..MaxField
\* marks a witness index that has no assignment
Absent == -1
WitnessMaps == [Witness -> FieldElement \cup {Absent}]

VARIABLES
    \* ---- execute_circuit ----
    state,                    \* Running | AwaitingHostCalls | Solved | Failed
    witness_map,              \* the WitnessMap of the execution
    opcodes,                  \* the opcode list handed to the next solve
    return_value,             \* what execute_circuit returned, once it has
    \* ---- process_brillig_calls ----
    unsolved_opcodes,         \* residual list of the pause
    brillig_foreign_calls,    \* the pending UnresolvedBrilligCalls of the pause
    futures,                  \* foreign_call_futures: one per pending call
    arrival,                  \* indices of the futures in completion order
    next_call,                \* position of the for loop (the future awaited)
    updated_brillig_opcodes,  \* the regenerated opcodes pushed so far
    \* ---- blackbox adapters ----
    ad_map,                   \* the witness map an adapter works on
    ad_entry,                 \* that map when the adapter was entered
    ad_call,                  \* the adapter call made last
    ad_outcome,               \* how that call ended
    ad_module_called,         \* whether that call reached the module
    \* ---- bridge ----
    memory,                   \* the linear memory
    br_entry,                 \* the memory when the bridge call was entered
    br_call,                  \* the bridge call made last
    br_outcome                \* how that call ended

driver_vars == <<state, witness_map, opcodes, return_value, unsolved_opcodes,
                 brillig_foreign_calls, futures, arrival, next_call,
                 updated_brillig_opcodes>>
adapter_vars == <<ad_map, ad_entry, ad_call, ad_outcome, ad_module_called>>
bridge_vars == <<memory, br_entry, br_call, br_outcome>>
vars == <<driver_vars, adapter_vars, bridge_vars>>

\* ------------------------------------------------------------------------
\* Witness map access (acvm::pwg, used by the adapters and by the solver)
\* ------------------------------------------------------------------------
\* witness_to_value: the value of a witness, an error when it has none
witness_to_value(map, w) ==
    IF map[w] = Absent THEN [ok |-> FALSE, value |-> Absent]
    ELSE [ok |-> TRUE, value |-> map[w]]

\* a conflicting insert that reports success
insert_value_silent(w, v, map) ==
    [ok |-> TRUE, map |-> [map EXCEPT ![w] = v]]

\* insert_value: WitnessMap::insert, then an error when the index held a
\* different value before
insert_value(w, v, map) ==
    [ok |-> map[w] = Absent \/ map[w] = v, map |-> [map EXCEPT ![w] = v]]

AllPresent(map, ws) == \A i \in 1..Len(ws) : witness_to_value(map, ws[i]).ok

\* ------------------------------------------------------------------------
\* Opcodes
\* ------------------------------------------------------------------------
\* One record shape for every opcode kind:
\*   Arithmetic : once every witness of inputs is known, outputs[1] := val
\*   Pedersen   : BlackBoxFuncCall, inputs hashed into outputs[1], outputs[2]
\*   Oracle     : needs data from outside once its inputs are known
\*   Brillig    : a block that makes `calls` foreign calls, one per run, and
\*                then writes its last result to outputs[1]
Op(kind, id, inputs, outputs, val, calls) ==
    [kind |-> kind, id |-> id, inputs |-> inputs, outputs |-> outputs,
     val |-> val, calls |-> calls, foreign_call_results |-> <<>>]

\* the request a paused Brillig block hands out: the function it calls and
\* the number of the call
ForeignCallWaitInfo(brillig) ==
    [function |-> brillig.id, inputs |-> <<Len(brillig.foreign_call_results)>>]

UnresolvedBrilligCall(brillig) ==
    [brillig |-> brillig, foreign_call_wait_info |-> ForeignCallWaitInfo(brillig)]

\* the opcodes circuits are built from: block b makes b foreign calls (at
\* most MaxCalls) and writes witness b
Min(a, b) == IF a < b THEN a ELSE b

OpcodePool ==
    {Op("Brillig", b, <<>>, <<((b - 1) % NumWitness) + 1>>, 0, Min(b, MaxCalls)) :
        b \in 1..NumBlocks}
    \cup {Op("Arithmetic", 0, <<>>, <<1>>, 1, 0),
          Op("Oracle", 0, <<>>, <<3>>, 0, 0),
          Op("Pedersen", 0, <<1>>, <<2, 3>>, 0, 0)}

RECURSIVE SeqsUpTo(_, _)
SeqsUpTo(S, n) ==
    IF n = 0 THEN {<<>>}
    ELSE LET shorter == SeqsUpTo(S, n - 1)
         IN  shorter \cup {Append(q, x) : q \in {r \in shorter : Len(r) = n - 1}, x \in S}

\* in a circuit every Brillig block has its own id
DistinctBlocks(ops) ==
    \A i, j \in 1..Len(ops) :
        (i # j /\ ops[i].kind = "Brillig" /\ ops[j].kind = "Brillig")
            => ops[i].id # ops[j].id

Circuits == {c \in SeqsUpTo(OpcodePool, MaxOpcodes) : Len(c) > 0 /\ DistinctBlocks(c)}

\* the initial witness maps the caller supplies
InitialWitnesses ==
    {m \in WitnessMaps : m[2] = Absent /\ m[3] = Absent /\ m[1] \in {Absent, 0}}

\* ------------------------------------------------------------------------
\* Blackbox adapters (impl PartialWitnessGenerator for SimulatedBackend)
\* ------------------------------------------------------------------------
\* An adapter call ends as one of
\*   Solved                 Ok(OpcodeResolution::Solved)
\*   MissingAssignment      Err from witness_to_value
\*   BlackBoxFunctionFailed Err(BlackBoxFunctionFailed(func, message))
\*   UnsatisfiedConstrain   Err from insert_value
\*   Panic                  the thread panics: no value is returned
Ended(outcome, map, called) ==
    [outcome |-> outcome, map |-> map, module_called |-> called]

\* what the module can answer to verify_signature
SchnorrAnswers == [ok : BOOLEAN, valid : BOOLEAN]
\* what the module can answer to encrypt and to fixed_base
PointAnswers ==
    {[ok |-> TRUE, x |-> x, y |-> y] : x, y \in FieldElement}
    \cup {[ok |-> FALSE, x |-> 0, y |-> 0]}

\* FieldElement::to_be_bytes: FIELD_BYTES bytes, most significant first
to_be_bytes(v) ==
    [i \in 1..FIELD_BYTES |->
        IF i = FIELD_BYTES THEN v % 256
        ELSE IF i = FIELD_BYTES - 1 THEN (v \div 256) % 256
        ELSE 0]

\* the low byte of each element of a byte-per-field-element operand
low_bytes(map, elems) ==
    [i \in 1..Len(elems) |->
        LET bytes == to_be_bytes(witness_to_value(map, elems[i]).value)
        IN  bytes[Len(bytes)]]

\* v[from..to] of a Vec (from is 0-based, to is exclusive): indexing panics
\* when the range reaches past the end of the vector
InRange(v, from, to) == from <= to /\ to <= Len(v)

\* <[u8; n]>::try_from(slice): fails unless the slice has n elements
try_into(slice, n) == Len(slice) = n

\* FieldElement::from(bool)
from_bool(b) == IF b THEN 1 ELSE 0

\* an invalid signature reported as a failure of the function
schnorr_output_strict(map, output, answer) ==
    IF ~answer.valid THEN Ended("BlackBoxFunctionFailed", map, TRUE)
    ELSE LET ins == insert_value(output, 1, map)
         IN  Ended(IF ins.ok THEN "Solved" ELSE "UnsatisfiedConstrain", ins.map, TRUE)

\* schnorr_verify, from the module's answer on: lines 90-95
schnorr_output(map, output, answer) ==
    LET ins == insert_value(output, from_bool(answer.valid), map)
    IN  Ended(IF ins.ok THEN "Solved" ELSE "UnsatisfiedConstrain", ins.map, TRUE)

schnorr_verify(map, public_key_x, public_key_y, signature, message, output, answer) ==
    IF ~witness_to_value(map, public_key_x).ok
        THEN Ended("MissingAssignment", map, FALSE)
    ELSE IF ~witness_to_value(map, public_key_y).ok
        THEN Ended("MissingAssignment", map, FALSE)
    ELSE LET pub_key_bytes ==
                 to_be_bytes(witness_to_value(map, public_key_x).value)
                 \o to_be_bytes(witness_to_value(map, public_key_y).value)
         IN
         IF ~try_into(pub_key_bytes, SIG_BYTES)
             THEN Ended("BlackBoxFunctionFailed", map, FALSE)
         ELSE IF ~AllPresent(map, signature)
             THEN Ended("MissingAssignment", map, FALSE)
         ELSE LET signature_bytes == low_bytes(map, signature) IN
              IF ~InRange(signature_bytes, 0, SIG_HALF)
                  THEN Ended("Panic", map, FALSE)
              ELSE IF ~try_into(SubSeq(signature_bytes, 1, SIG_HALF), SIG_HALF)
                  THEN Ended("BlackBoxFunctionFailed", map, FALSE)
              ELSE IF ~InRange(signature_bytes, SIG_HALF, SIG_BYTES)
                  THEN Ended("Panic", map, FALSE)
              ELSE IF ~try_into(SubSeq(signature_bytes, SIG_HALF + 1, SIG_BYTES),
                                SIG_HALF)
                  THEN Ended("BlackBoxFunctionFailed", map, FALSE)
              ELSE IF ~AllPresent(map, message)
                  THEN Ended("MissingAssignment", map, FALSE)
              ELSE IF ~answer.ok
                  THEN Ended("BlackBoxFunctionFailed", map, TRUE)
              ELSE schnorr_output(map, output, answer)

\* the two inserts that end pedersen (lines 113-115) and
\* fixed_base_scalar_mul (lines 133-135)
write_point(outputs, x, y, map) ==
    IF Len(outputs) < 1 THEN Ended("Panic", map, TRUE)
    ELSE LET first == insert_value(outputs[1], x, map) IN
         IF ~first.ok THEN Ended("UnsatisfiedConstrain", first.map, TRUE)
         ELSE IF Len(outputs) < 2 THEN Ended("Panic", first.map, TRUE)
         ELSE LET second == insert_value(outputs[2], y, first.map) IN
              IF ~second.ok THEN Ended("UnsatisfiedConstrain", second.map, TRUE)
              ELSE Ended("Solved", second.map, TRUE)

pedersen(map, inputs, outputs, answer) ==
    IF ~AllPresent(map, inputs) THEN Ended("MissingAssignment", map, FALSE)
    ELSE IF ~answer.ok THEN Ended("BlackBoxFunctionFailed", map, TRUE)
    ELSE write_point(outputs, answer.x, answer.y, map)

fixed_base_scalar_mul(map, input, outputs, answer) ==
    IF ~witness_to_value(map, input).ok THEN Ended("MissingAssignment", map, FALSE)
    ELSE IF ~answer.ok THEN Ended("BlackBoxFunctionFailed", map, TRUE)
    ELSE write_point(outputs, answer.x, answer.y, map)

\* ------------------------------------------------------------------------
\* The solver the driver calls (acvm::pwg::solve, called at lines 160-161)
\* ------------------------------------------------------------------------
\* one opcode against the map: Solved | Stalled | InProgress (an oracle that
\* waits for data) | InProgressBrillig (a block that waits for a foreign
\* call) | Err
SolveOpcode(op, map, answer) ==
    CASE op.kind = "Arithmetic" ->
            IF ~AllPresent(map, op.inputs) THEN [res |-> "Stalled", map |-> map]
            ELSE LET ins == insert_value(op.outputs[1], op.val, map)
                 IN  [res |-> IF ins.ok THEN "Solved" ELSE "Err", map |-> ins.map]
      [] op.kind = "Pedersen" ->
            IF ~AllPresent(map, op.inputs) THEN [res |-> "Stalled", map |-> map]
            ELSE LET r == pedersen(map, op.inputs, op.outputs, answer)
                 IN  [res |-> IF r.outcome = "Solved" THEN "Solved" ELSE "Err",
                      map |-> r.map]
      [] op.kind = "Oracle" ->
            IF ~AllPresent(map, op.inputs) THEN [res |-> "Stalled", map |-> map]
            ELSE [res |-> "InProgress", map |-> map]
      [] op.kind = "Brillig" ->
            IF Len(op.foreign_call_results) < op.calls
                THEN [res |-> "InProgressBrillig", map |-> map]
            ELSE LET last == IF op.foreign_call_results = <<>> THEN 0
                             ELSE op.foreign_call_results[Len(op.foreign_call_results)]
                     ins == insert_value(op.outputs[1], last, map)
                 IN  [res |-> IF ins.ok THEN "Solved" ELSE "Err", map |-> ins.map]

\* the one element of a singleton set
The(S) == CHOOSE x \in S : TRUE

\* the bookkeeping of a pass after one opcode has been tried
PassStep(acc, op, answer) ==
    The({[map |-> r.map,
          err |-> r.res = "Err",
          stalled |-> acc.stalled /\ r.res = "Stalled",
          unresolved_opcodes |->
              IF r.res = "Stalled" THEN Append(acc.unresolved_opcodes, op)
              ELSE acc.unresolved_opcodes,
          unresolved_oracles |->
              IF r.res = "InProgress" THEN Append(acc.unresolved_oracles, op)
              ELSE acc.unresolved_oracles,
          unresolved_brillig_calls |->
              IF r.res = "InProgressBrillig"
                  THEN Append(acc.unresolved_brillig_calls, UnresolvedBrilligCall(op))
              ELSE acc.unresolved_brillig_calls] :
         r \in {SolveOpcode(op, acc.map, answer)}})

\* one pass over the opcode list; the pass stops at the first error
RECURSIVE SolvePass(_, _, _, _)
SolvePass(ops, i, acc, answer) ==
    IF i > Len(ops) \/ acc.err THEN acc
    ELSE The({SolvePass(ops, i + 1, after, answer) :
              after \in {PassStep(acc, ops[i], answer)}})

SolverStatus(status, map, unsolved, calls) ==
    [status |-> status, map |-> map, unsolved_opcodes |-> unsolved,
     unresolved_brillig_calls |-> calls]

PassStart(map) ==
    [map |-> map, err |-> FALSE, stalled |-> TRUE,
     unresolved_opcodes |-> <<>>, unresolved_oracles |-> <<>>,
     unresolved_brillig_calls |-> <<>>]

\* passes are repeated over the opcodes that stalled until the list is empty
\* (Solved), something waits for data from outside (RequiresOracleData), a
\* pass solves nothing (Err) or an opcode fails (Err)
RECURSIVE solve(_, _, _)
solve(map, ops, answer) ==
    IF ops = <<>> THEN SolverStatus("Solved", map, <<>>, <<>>)
    ELSE The({
        IF p.err THEN SolverStatus("Err", p.map, <<>>, <<>>)
        ELSE IF p.unresolved_oracles # <<>> \/ p.unresolved_brillig_calls # <<>>
            THEN SolverStatus("RequiresOracleData", p.map, p.unresolved_opcodes,
                              p.unresolved_brillig_calls)
        ELSE IF p.stalled /\ p.unresolved_opcodes # <<>>
            THEN SolverStatus("Err", p.map, <<>>, <<>>)
        ELSE solve(p.map, p.unresolved_opcodes, answer) :
        p \in {SolvePass(ops, 1, PassStart(map), answer)}})

\* the answers of the module tried in an execution
ExecutionAnswers == {a \in PointAnswers : a.x = a.y}

\* ------------------------------------------------------------------------
\* execute_circuit and process_brillig_calls
\* ------------------------------------------------------------------------
\* what a failed handler invocation resolves to
HandlerError == -2
HandlerResults == {0, 1}

NoReturn == [kind |-> "None", map |-> <<>>]
ReturnOk(map) == [kind |-> "Ok", map |-> map]
ReturnErr == [kind |-> "Err", map |-> <<>>]

\* resolve_brillig: the handler is invoked with the request when the future
\* is made; the future resolves once the handler has answered
resolve_brillig(wait_info) ==
    [request |-> wait_info, started |-> TRUE, done |-> FALSE, result |-> Absent]

\* a future of a call that has not been issued
NotIssued(wait_info) ==
    [request |-> wait_info, started |-> FALSE, done |-> FALSE, result |-> Absent]

\* futures made one at a time: only the first call is issued
foreign_call_futures_serial(calls) ==
    [i \in 1..Len(calls) |->
        IF i = 1 THEN resolve_brillig(calls[i].foreign_call_wait_info)
        ELSE NotIssued(calls[i].foreign_call_wait_info)]

\* lines 191-200: the wait infos are pulled out and one future is made for
\* each of them, before any is awaited
foreign_call_futures(calls) ==
    [i \in 1..Len(calls) |-> resolve_brillig(calls[i].foreign_call_wait_info)]

\* the result of whichever future completed i-th
awaited_by_arrival(futs, order, i) == futs[order[i]].result

\* line 207: the future zipped with the i-th call is awaited
awaited(futs, order, i) == futs[i].result

\* the block re-queued as it was
new_brillig_unchanged(foreign_call, foreign_call_result) == foreign_call.brillig

\* the block re-queued with the new result in place of the earlier ones
new_brillig_overwritten(foreign_call, foreign_call_result) ==
    [foreign_call.brillig EXCEPT !.foreign_call_results = <<foreign_call_result>>]

\* lines 209-211: the call's block with the result pushed
new_brillig(foreign_call, foreign_call_result) ==
    [foreign_call.brillig EXCEPT
        !.foreign_call_results = Append(@, foreign_call_result)]

\* a loop that leaves the last pair out
loop_done_early(i, calls) == i >= Len(calls)

\* lines 204-212: the for loop has consumed every (call, future) pair
loop_done(i, calls) == i > Len(calls)

\* a failed call answered with a default value
await_failed_never(result) == FALSE

\* line 207: `?` returns the error of a failed call
await_failed(result) == result = HandlerError

\* the new opcodes put in front of the residual list
resumed_opcodes_in_front(unsolved, new_brillig_opcodes) == new_brillig_opcodes \o unsolved

\* lines 175-176: the next opcode list
resumed_opcodes(unsolved, new_brillig_opcodes) == unsolved \o new_brillig_opcodes

\* the adapters and the bridge take no part in Spec: the solver calls the
\* adapters inside its steps
AdapterCall(fn, inputs, signature, message, outputs, ok, valid) ==
    [fn |-> fn, inputs |-> inputs, signature |-> signature, message |-> message,
     outputs |-> outputs, module_ok |-> ok, module_valid |-> valid]

NoAdapterCall == AdapterCall("none", <<>>, <<>>, <<>>, <<>>, FALSE, FALSE)

BridgeCall(fn, offset, length) == [fn |-> fn, offset |-> offset, length |-> length]

NoBridgeCall == BridgeCall("none", 0, 0)

AdaptersIdle ==
    /\ ad_map = [w \in Witness |-> Absent]
    /\ ad_entry = [w \in Witness |-> Absent]
    /\ ad_call = NoAdapterCall
    /\ ad_outcome = "none"
    /\ ad_module_called = FALSE

BridgeIdle ==
    /\ memory = <<>>
    /\ br_entry = <<>>
    /\ br_call = NoBridgeCall
    /\ br_outcome = "none"

Init ==
    /\ state = "Running"
    /\ witness_map \in InitialWitnesses
    /\ opcodes \in Circuits
    /\ return_value = NoReturn
    /\ unsolved_opcodes = <<>>
    /\ brillig_foreign_calls = <<>>
    /\ futures = <<>>
    /\ arrival = <<>>
    /\ next_call = 1
    /\ updated_brillig_opcodes = <<>>
    /\ ad_map = [w \in Witness |-> Absent]
    /\ ad_entry = [w \in Witness |-> Absent]
    /\ AdaptersIdle
    /\ BridgeIdle

\* lines 160-164: the solver reports full resolution
SolverSolved ==
    /\ state = "Running"
    /\ \E answer \in ExecutionAnswers :
       \E s \in {solve(witness_map, opcodes, answer)} :
        /\ s.status = "Solved"
        /\ witness_map' = s.map
        /\ return_value' = ReturnOk(s.map)
    /\ state' = "Solved"
    /\ opcodes' = <<>>
    /\ UNCHANGED <<unsolved_opcodes, brillig_foreign_calls, futures, arrival,
                   next_call, updated_brillig_opcodes>>
    /\ UNCHANGED <<adapter_vars, bridge_vars>>

\* lines 160-161: the solver returns an error
SolverFailed ==
    /\ state = "Running"
    /\ \E answer \in ExecutionAnswers :
       \E s \in {solve(witness_map, opcodes, answer)} :
        /\ s.status = "Err"
        /\ witness_map' = s.map
    /\ return_value' = ReturnErr
    /\ state' = "Failed"
    /\ opcodes' = <<>>
    /\ UNCHANGED <<unsolved_opcodes, brillig_foreign_calls, futures, arrival,
                   next_call, updated_brillig_opcodes>>
    /\ UNCHANGED <<adapter_vars, bridge_vars>>

\* lines 165-172 and 186-203: the solver pauses; process_brillig_calls makes
\* the futures and reaches its first await (or, with no pending call, returns
\* at once and the loop of execute_circuit goes round)
SolverPaused ==
    /\ state = "Running"
    /\ \E answer \in ExecutionAnswers :
       \E s \in {solve(witness_map, opcodes, answer)} :
        /\ s.status = "RequiresOracleData"
        /\ witness_map' = s.map
        /\ unsolved_opcodes' = s.unsolved_opcodes
        /\ brillig_foreign_calls' = s.unresolved_brillig_calls
        /\ futures' = foreign_call_futures(s.unresolved_brillig_calls)
        /\ IF loop_done(1, s.unresolved_brillig_calls)
               THEN /\ state' = "Running"
                    /\ opcodes' = resumed_opcodes(s.unsolved_opcodes, <<>>)
               ELSE /\ state' = "AwaitingHostCalls"
                    /\ opcodes' = <<>>
    /\ arrival' = <<>>
    /\ next_call' = 1
    /\ updated_brillig_opcodes' = <<>>
    /\ UNCHANGED return_value
    /\ UNCHANGED <<adapter_vars, bridge_vars>>

\* the handler answers an issued call
HandlerCompletes(i, result) ==
    /\ state = "AwaitingHostCalls"
    /\ i \in 1..Len(futures)
    /\ futures[i].started /\ ~futures[i].done
    /\ futures' = [futures EXCEPT ![i].done = TRUE, ![i].result = result]
    /\ arrival' = Append(arrival, i)
    /\ UNCHANGED <<state, witness_map, opcodes, return_value, unsolved_opcodes,
                   brillig_foreign_calls, next_call, updated_brillig_opcodes>>
    /\ UNCHANGED <<adapter_vars, bridge_vars>>

HandlerResolves == \E i \in 1..NumBlocks, r \in HandlerResults : HandlerCompletes(i, r)

HandlerRejects == \E i \in 1..NumBlocks : HandlerCompletes(i, HandlerError)

\* lines 204-214 and 175-176: the awaited future has resolved; its result is
\* pushed onto the call's block, and after the last pair the new opcodes are
\* appended to the residual list and the solver is run again
AwaitResolved ==
    /\ state = "AwaitingHostCalls"
    /\ ~loop_done(next_call, brillig_foreign_calls)
    /\ futures[next_call].done
    /\ LET foreign_call_result == awaited(futures, arrival, next_call) IN
        /\ ~await_failed(foreign_call_result)
        /\ updated_brillig_opcodes' =
               Append(updated_brillig_opcodes,
                      new_brillig(brillig_foreign_calls[next_call], foreign_call_result))
    /\ next_call' = next_call + 1
    /\ IF loop_done(next_call', brillig_foreign_calls)
           THEN /\ state' = "Running"
                /\ opcodes' = resumed_opcodes(unsolved_opcodes, updated_brillig_opcodes')
           ELSE UNCHANGED <<state, opcodes>>
    /\ UNCHANGED <<witness_map, return_value, unsolved_opcodes,
                   brillig_foreign_calls, futures, arrival>>
    /\ UNCHANGED <<adapter_vars, bridge_vars>>

\* lines 207 and 172: the awaited future has failed; `?` returns the error
\* from process_brillig_calls and from execute_circuit
AwaitFailed ==
    /\ state = "AwaitingHostCalls"
    /\ ~loop_done(next_call, brillig_foreign_calls)
    /\ futures[next_call].done
    /\ await_failed(awaited(futures, arrival, next_call))
    /\ state' = "Failed"
    /\ return_value' = ReturnErr
    /\ UNCHANGED <<witness_map, opcodes, unsolved_opcodes, brillig_foreign_calls,
                   futures, arrival, next_call, updated_brillig_opcodes>>
    /\ UNCHANGED <<adapter_vars, bridge_vars>>

Next ==
    \/ SolverSolved
    \/ SolverFailed
    \/ SolverPaused
    \/ HandlerResolves
    \/ HandlerRejects
    \/ AwaitResolved
    \/ AwaitFailed

Spec == Init /\ [][Next]_vars

\* every solver step returns, every issued handler call completes and the
\* driver is resumed once the future it awaits has resolved
FairSpec ==
    /\ Spec
    /\ WF_vars(SolverSolved \/ SolverFailed \/ SolverPaused)
    /\ WF_vars(HandlerResolves \/ HandlerRejects)
    /\ WF_vars(AwaitResolved \/ AwaitFailed)

\* ------------------------------------------------------------------------
\* The adapters called on their own
\* ------------------------------------------------------------------------
\* the driver takes no part in AdapterSpec and BridgeSpec
DriverIdle ==
    /\ state = "Idle"
    /\ witness_map = [w \in Witness |-> Absent]
    /\ opcodes = <<>>
    /\ return_value = NoReturn
    /\ unsolved_opcodes = <<>>
    /\ brillig_foreign_calls = <<>>
    /\ futures = <<>>
    /\ arrival = <<>>
    /\ next_call = 1
    /\ updated_brillig_opcodes = <<>>

\* the witness maps an adapter is entered with
AdapterMaps == [Witness -> {Absent, 0, 1}]
\* signature lengths around the two slice ends and the expected length
SigLens == {0, SIG_HALF - 1, SIG_HALF, SIG_HALF + 1} \cup ((SIG_BYTES - 1)..MaxSigLen)
\* a signature or message whose n elements all name witness w
Repeat(w, n) == [i \in 1..n |-> w]
\* the output slot lists tried
OutputLists == SeqsUpTo({2, 3}, MaxOutputs)

AdapterInit ==
    /\ DriverIdle
    /\ ad_map \in AdapterMaps
    /\ ad_entry = ad_map
    /\ ad_call = NoAdapterCall
    /\ ad_outcome = "none"
    /\ ad_module_called = FALSE
    /\ BridgeIdle

AdapterReturns(r, call) ==
    /\ ad_entry' = ad_map
    /\ ad_map' = r.map
    /\ ad_outcome' = r.outcome
    /\ ad_module_called' = r.module_called
    /\ ad_call' = call
    /\ UNCHANGED <<driver_vars, bridge_vars>>

CallSchnorrVerify ==
    /\ ad_call = NoAdapterCall
    /\ \E n \in SigLens, sw \in {1, 3}, mw \in {1, 3}, mlen \in 0..1,
          output \in Witness, answer \in SchnorrAnswers :
        \E r \in {schnorr_verify(ad_map, 1, 2, Repeat(sw, n), Repeat(mw, mlen),
                                 output, answer)} :
            AdapterReturns(r, AdapterCall("schnorr_verify", <<1, 2>>, Repeat(sw, n),
                                          Repeat(mw, mlen), <<output>>,
                                          answer.ok, answer.valid))

CallPedersen ==
    /\ ad_call = NoAdapterCall
    /\ \E ilen \in 0..2, outputs \in OutputLists, answer \in PointAnswers :
        \E r \in {pedersen(ad_map, Repeat(1, ilen), outputs, answer)} :
            AdapterReturns(r, AdapterCall("pedersen", Repeat(1, ilen), <<>>, <<>>,
                                          outputs, answer.ok, FALSE))

CallFixedBaseScalarMul ==
    /\ ad_call = NoAdapterCall
    /\ \E input \in {1, 2}, outputs \in OutputLists, answer \in PointAnswers :
        \E r \in {fixed_base_scalar_mul(ad_map, input, outputs, answer)} :
            AdapterReturns(r, AdapterCall("fixed_base_scalar_mul", <<input>>, <<>>,
                                          <<>>, outputs, answer.ok, FALSE))

AdapterNext ==
    \/ CallSchnorrVerify
    \/ CallPedersen
    \/ CallFixedBaseScalarMul

AdapterSpec == AdapterInit /\ [][AdapterNext]_vars

\* ------------------------------------------------------------------------
\* The bridge to the module's linear memory (impl Barretenberg)
\* ------------------------------------------------------------------------
Bytes == {0, 1}
ByteStrings == SeqsUpTo(Bytes, MaxData)

\* 2 to the n
RECURSIVE Pow2(_)
Pow2(n) == IF n = 0 THEN 1 ELSE 2 * Pow2(n - 1)

\* the signed words a module export can return
Words == (0 - Pow2(WordBits - 1))..(Pow2(WordBits - 1) - 1)

\* u32::from_be_bytes(ptr.to_be_bytes()): the same bits read as unsigned
as_unsigned(ptr) == IF ptr < 0 THEN ptr + Pow2(WordBits) ELSE ptr

\* MemoryView::write and MemoryView::read refuse a range that ends past the
\* end of the memory
in_bounds(mem, offset, length) == offset + length <= Len(mem)

BridgeEnded(outcome, mem, value) ==
    [outcome |-> outcome, memory |-> mem, value |-> value]

\* transfer_to_heap: the write is unwrapped
transfer_to_heap(mem, data, offset) ==
    IF ~in_bounds(mem, offset, Len(data)) THEN BridgeEnded("Panic", mem, <<>>)
    ELSE BridgeEnded("Ok",
            [i \in 1..Len(mem) |->
                IF i > offset /\ i <= offset + Len(data) THEN data[i - offset]
                ELSE mem[i]],
            <<>>)

\* read_memory_variable_length: the read is unwrapped
read_memory_variable_length(mem, offset, length) ==
    IF ~in_bounds(mem, offset, length) THEN BridgeEnded("Panic", mem, <<>>)
    ELSE BridgeEnded("Ok", mem, [i \in 1..length |-> mem[offset + i]])

\* read_memory::<SIZE>: the variable-length read, then the conversion to an
\* array of SIZE bytes, which is expected to succeed
read_memory(mem, start, size) ==
    The({IF r.outcome = "Ok" /\ ~try_into(r.value, size)
             THEN BridgeEnded("Panic", mem, <<>>)
         ELSE r :
         r \in {read_memory_variable_length(mem, start, size)}})

\* what calling the bbmalloc export can give: no such export, a trap, no
\* value, or a word
MallocAnswers ==
    {[kind |-> k, value |-> 0] : k \in {"InvalidExport", "FunctionCallFailed", "NoValue"}}
    \cup {[kind |-> "Value", value |-> v] : v \in Words}

\* allocate: bbmalloc, then the bytes are written where it points
allocate(mem, bytes, answer) ==
    IF answer.kind # "Value" THEN BridgeEnded("Err", mem, answer.kind)
    ELSE The({IF w.outcome = "Ok" THEN BridgeEnded("Ok", w.memory, answer.value)
              ELSE w :
              w \in {transfer_to_heap(mem, bytes, as_unsigned(answer.value))}})

BridgeInit ==
    /\ DriverIdle
    /\ AdaptersIdle
    /\ memory \in [1..MemSize -> Bytes]
    /\ br_entry = memory
    /\ br_call = NoBridgeCall
    /\ br_outcome = "none"

BridgeReturns(r, fn, offset, length) ==
    /\ br_entry' = memory
    /\ memory' = r.memory
    /\ br_outcome' = r.outcome
    /\ br_call' = BridgeCall(fn, offset, length)
    /\ UNCHANGED <<driver_vars, adapter_vars>>

Offsets == 0..(MemSize + 1)

CallTransferToHeap ==
    /\ br_call = NoBridgeCall
    /\ \E data \in ByteStrings, offset \in Offsets :
        \E r \in {transfer_to_heap(memory, data, offset)} :
            BridgeReturns(r, "transfer_to_heap", offset, Len(data))

CallReadMemoryVariableLength ==
    /\ br_call = NoBridgeCall
    /\ \E offset \in Offsets, length \in 0..MaxData :
        \E r \in {read_memory_variable_length(memory, offset, length)} :
            BridgeReturns(r, "read_memory_variable_length", offset, length)

CallReadMemory ==
    /\ br_call = NoBridgeCall
    /\ \E start \in Offsets, size \in 1..MaxData :
        \E r \in {read_memory(memory, start, size)} :
            BridgeReturns(r, "read_memory", start, size)

CallAllocate ==
    /\ br_call = NoBridgeCall
    /\ \E bytes \in ByteStrings, answer \in MallocAnswers :
        \E r \in {allocate(memory, bytes, answer)} :
            BridgeReturns(r, "allocate",
                          IF answer.kind = "Value" THEN as_unsigned(answer.value) ELSE 0,
                          Len(bytes))

BridgeNext ==
    \/ CallTransferToHeap
    \/ CallReadMemoryVariableLength
    \/ CallReadMemory
    \/ CallAllocate

BridgeSpec == BridgeInit /\ [][BridgeNext]_vars

\* ------------------------------------------------------------------------
\* Properties of the driver
\* ------------------------------------------------------------------------
Terminal == state \in {"Solved", "Failed"}

Outstanding(i) == futures[i].started /\ ~futures[i].done

HandlerErred == \E i \in 1..Len(futures) : futures[i].result = HandlerError

\* C1: the regenerated opcodes pushed so far are one per awaited call, in the
\* order of the pending calls; the i-th is the i-th pending call's block with
\* the result the handler gave for that call's request appended, whatever the
\* order in which the handler answered; when process_brillig_calls has returned
\* there are exactly as many as pending calls.
C1_BatchingByIdentity ==
    /\ Len(updated_brillig_opcodes) = next_call - 1
    /\ Len(futures) = Len(brillig_foreign_calls)
    /\ (state # "AwaitingHostCalls" /\ ~HandlerErred)
           => Len(updated_brillig_opcodes) = Len(brillig_foreign_calls)
    /\ \A i \in 1..Len(updated_brillig_opcodes) :
        /\ updated_brillig_opcodes[i].kind = "Brillig"
        /\ updated_brillig_opcodes[i].id = brillig_foreign_calls[i].brillig.id
        /\ futures[i].request = brillig_foreign_calls[i].foreign_call_wait_info
        /\ futures[i].request.function = updated_brillig_opcodes[i].id
        /\ futures[i].result \in HandlerResults
        /\ updated_brillig_opcodes[i].foreign_call_results =
               brillig_foreign_calls[i].brillig.foreign_call_results
                   \o <<futures[i].result>>

\* C1 witness: a batch of two calls answered in the opposite order with
\* different results, folded and handed back to the solver
C1_Witness ==
    /\ state = "Running"
    /\ Len(brillig_foreign_calls) >= 2
    /\ Len(updated_brillig_opcodes) = Len(brillig_foreign_calls)
    /\ arrival[1] = 2
    /\ futures[1].result # futures[2].result

\* C2: whenever the solver is about to run (or has ended the execution with
\* Solved), every handler invocation that was issued has completed.
C2_BarrierBeforeResumption ==
    state \in {"Running", "Solved"}
        => \A i \in 1..Len(futures) : ~Outstanding(i)

\* C2 witness: the solver is run again after a pause with two calls
C2_Witness ==
    /\ state = "Running"
    /\ Len(futures) >= 2
    /\ \A i \in 1..Len(futures) : futures[i].done

\* C3: once a handler invocation of a pause has failed the solver is never
\* run again and no witness map is returned, and the execution ends Failed
\* with an error returned, whatever the other invocations of the batch gave.
C3_HostCallFailurePropagates ==
    /\ [](HandlerErred =>
            /\ state \in {"AwaitingHostCalls", "Failed"}
            /\ return_value.kind # "Ok"
            /\ (state = "Failed" => return_value = ReturnErr))
    /\ (HandlerErred ~> (state = "Failed" /\ return_value = ReturnErr))

\* C3 witness: Failed with one call of the batch failed and another succeeded
C3_Witness ==
    /\ state = "Failed"
    /\ \E i, j \in 1..Len(futures) :
        /\ futures[i].result = HandlerError
        /\ futures[j].done /\ futures[j].result \in HandlerResults

C12_ResumedOpcodeList ==
    [][/\ state = "AwaitingHostCalls" =>
            /\ unsolved_opcodes' = unsolved_opcodes
            /\ brillig_foreign_calls' = brillig_foreign_calls
       /\ state' = "Running" =>
            LET R == unsolved_opcodes'
                N == Len(brillig_foreign_calls')
            IN  /\ Len(updated_brillig_opcodes') = N
                /\ Len(opcodes') = Len(R) + N
                /\ \A i \in 1..Len(R) : opcodes'[i] = R[i]
                /\ \A j \in 1..N :
                    /\ opcodes'[Len(R) + j] = updated_brillig_opcodes'[j]
                    /\ opcodes'[Len(R) + j].kind = "Brillig"
                    /\ opcodes'[Len(R) + j].id = brillig_foreign_calls'[j].brillig.id]_vars

\* C12 witness: the solver is handed a list made of a non-empty residual list
\* and the regenerated opcodes of two pending calls
C12_Witness ==
    /\ state = "Running"
    /\ unsolved_opcodes # <<>>
    /\ Len(brillig_foreign_calls) >= 2
    /\ Len(opcodes) = Len(unsolved_opcodes) + Len(brillig_foreign_calls)
    /\ opcodes[Len(opcodes)].foreign_call_results # <<>>

\* the opcodes the execution still holds: the list the solver is about to be
\* handed, or during a pause the residual list, the regenerated opcodes and
\* the blocks of the calls not yet awaited
LiveOpcodes ==
    IF state = "Running" THEN opcodes
    ELSE IF state = "AwaitingHostCalls"
        THEN unsolved_opcodes \o updated_brillig_opcodes
             \o [i \in 1..(Len(brillig_foreign_calls) - next_call + 1) |->
                    brillig_foreign_calls[next_call + i - 1].brillig]
    ELSE <<>>

\* the foreign_call_results lists held for Brillig block b
ResultsOf(b) ==
    {LiveOpcodes[i].foreign_call_results :
        i \in {j \in 1..Len(LiveOpcodes) :
                 LiveOpcodes[j].kind = "Brillig" /\ LiveOpcodes[j].id = b}}

\* C13: in a pause there is one handler invocation per pending request, each
\* answered at most once, and one pending request per block; every step
\* leaves a block's foreign_call_results as it was or, when the call of that
\* block is awaited, appends at the end the one result the handler gave for
\* the block's request (numbered by the results the block already carried);
\* and the list of every block regenerated by a pause is the list it had at
\* the pause with exactly that one result appended.
C13_ResultsAccumulate ==
    /\ [](/\ Len(futures) = Len(brillig_foreign_calls)
          /\ \A i \in 1..Len(futures) :
                /\ futures[i].request = brillig_foreign_calls[i].foreign_call_wait_info
                /\ futures[i].done <=> \E k \in 1..Len(arrival) : arrival[k] = i
          /\ \A k, l \in 1..Len(arrival) : arrival[k] = arrival[l] => k = l
          /\ \A i, j \in 1..Len(brillig_foreign_calls) :
                brillig_foreign_calls[i].brillig.id = brillig_foreign_calls[j].brillig.id
                    => i = j
          /\ \A b \in 1..NumBlocks : Cardinality(ResultsOf(b)) <= 1)
    /\ [][/\ \A b \in 1..NumBlocks :
              \A new \in ResultsOf(b)' :
                /\ ResultsOf(b) # {}
                /\ \A old \in ResultsOf(b) :
                    \/ new = old
                    \/ /\ state = "AwaitingHostCalls"
                       /\ next_call' = next_call + 1
                       /\ brillig_foreign_calls[next_call].brillig.id = b
                       /\ futures[next_call].request =
                              [function |-> b, inputs |-> <<Len(old)>>]
                       /\ futures[next_call].result \in HandlerResults
                       /\ new = old \o <<futures[next_call].result>>
          /\ (state = "AwaitingHostCalls" /\ state' = "Running") =>
              \A j \in 1..Len(brillig_foreign_calls) :
                ResultsOf(brillig_foreign_calls[j].brillig.id)' =
                    {brillig_foreign_calls[j].brillig.foreign_call_results
                        \o <<futures[j].result>>}]_vars

\* C13 witness: a block that paused twice is handed to the solver with the
\* two results, different from each other, in the order they were given
C13_Witness ==
    /\ state = "Running"
    /\ \E i \in 1..Len(opcodes) :
        /\ opcodes[i].kind = "Brillig"
        /\ Len(opcodes[i].foreign_call_results) = 2
        /\ opcodes[i].foreign_call_results[1] # opcodes[i].foreign_call_results[2]
        /\ \E j \in 1..Len(futures) :
            /\ futures[j].request = [function |-> opcodes[i].id, inputs |-> <<1>>]
            /\ futures[j].result = opcodes[i].foreign_call_results[2]

\* ------------------------------------------------------------------------
\* Properties of the adapters
\* ------------------------------------------------------------------------
\* every input witness of the adapter call made last was present at entry
InputsPresent ==
    AllPresent(ad_entry, ad_call.inputs \o ad_call.signature \o ad_call.message)

\* C6: a schnorr_verify call with every input present and a signature that
\* does not have exactly 64 elements returns BlackBoxFunctionFailed, makes no
\* module call and leaves the witness map as it was.
C6_SignatureLengthChecked ==
    (/\ ad_call.fn = "schnorr_verify"
     /\ InputsPresent
     /\ Len(ad_call.signature) # SIG_BYTES)
        => /\ ad_outcome = "BlackBoxFunctionFailed"
           /\ ~ad_module_called
           /\ ad_map = ad_entry

\* C7: an adapter writes outputs only after the module call has succeeded,
\* and an adapter that does not return Solved has written no output: no
\* witness index that was unbound at entry is bound when it returns.
C7_AtomicOutputWrites ==
    ad_call.fn # "none" =>
        /\ (ad_map # ad_entry => ad_module_called /\ ad_call.module_ok)
        /\ (ad_outcome # "Solved" =>
                \A w \in Witness : ad_entry[w] = Absent => ad_map[w] = Absent)

\* a schnorr_verify call with every input present, a 64-element signature
\* and a module call that returned
WellFormedSchnorrCall ==
    /\ ad_call.fn = "schnorr_verify"
    /\ InputsPresent
    /\ Len(ad_call.signature) = SIG_BYTES
    /\ ad_call.module_ok

C11_InputsResolvedFirst ==
    (ad_call.fn # "none" /\ ~InputsPresent)
        => /\ ad_outcome = "MissingAssignment"
           /\ ~ad_module_called
           /\ ad_map = ad_entry

\* ------------------------------------------------------------------------
\* Properties of the witness map of an execution
\* ------------------------------------------------------------------------
Monotone == \A w \in Witness : witness_map[w] # Absent => witness_map'[w] = witness_map[w]

C10_BoundsFailuresReported ==
    (/\ br_call.fn # "none"
     /\ ~in_bounds(br_entry, br_call.offset, br_call.length))
        => /\ br_outcome = "Err"
           /\ memory = br_entry

====
